---- MODULE Spec2Model ----
(***************************************************************************)
(* Model of the sonar-demo notebooks.                                      *)
(*                                                                         *)
(*   Fetcher: the MODIS download notebook (makedirs, urls, download loop). *)
(*   Joiner : 03-extract-modis-data.ipynb (find_month, get_raster_path,    *)
(*            extract_raster, augment_df, the pool.map/concat cell and     *)
(*            the final to_csv cell).                                      *)
(*                                                                         *)
(* Numbers in data frames are kept exact: a cell is m * f1 * ... * fk      *)
(* where m is the integer read from the raster and each fi is a decimal    *)
(* factor num * 10^-exp it has been multiplied by.                         *)
(***************************************************************************)
EXTENDS Integers, Sequences, FiniteSets, TLC

VARIABLES
    nodata,      \* the grid cells that hold the no-data value in every remote dataset
    dirExists,   \* Fetcher: data/modis exists
    disk,        \* data/modis: file path -> [state, content]
    fpc,         \* Fetcher: position in the notebook
    fidx,        \* Fetcher: index of the current entry of urls (1-based)
    arg,         \* direct call of augment_df: [csv, variables]
    ret,         \* direct call of augment_df: what the call returned or raised
    summaries,   \* data/summaries: file name -> table stored in the CSV file
    listing,     \* the order in which os.listdir returns the names
    nproc,       \* os.cpu_count(): the pool's size
    jpc,         \* Joiner main process: position in the notebook
    full_csv_paths, \* the sorted list of input paths
    chunks,      \* pool.map: the task chunks, each a sequence of indexes into full_csv_paths
    taken,       \* pool.map: number of chunks handed to a worker so far
    worker,      \* pool worker -> 0 (idle) or the chunk it is running
    results,     \* pool.map: index of full_csv_paths -> result of augment_df, once stored
    doneOrder,   \* pool.map: the chunks in the order they completed
    firstError,  \* pool.map: the first exception stored by a failed chunk
    out,         \* the concatenated data frame
    csvOut,      \* data/sonar-with-modis.csv
    raised       \* the exception that ended the Joiner run, "none" otherwise

vars == <<nodata, dirExists, disk, fpc, fidx, arg, ret, summaries, listing, nproc, jpc,
          full_csv_paths, chunks, taken, worker, results, doneOrder, firstError, out,
          csvOut, raised>>

fetchVars == <<dirExists, disk, fpc, fidx>>
callVars  == <<arg, ret>>
joinVars  == <<summaries, listing, nproc, jpc, full_csv_paths, chunks, taken, worker,
               results, doneOrder, firstError, out, csvOut, raised>>

(***************************************************************************)
(* Bounds of the model.                                                    *)
(***************************************************************************)
MaxRows  == 2     \* rows of an input table
MaxFiles == 2     \* files in data/summaries
MaxProcs == 2     \* size of the pool

(***************************************************************************)
(* Generic helpers.                                                        *)
(***************************************************************************)
Range(s) == { s[i] : i \in 1..Len(s) }

RECURSIVE Flatten(_)
Flatten(ss) == IF ss = <<>> THEN <<>> ELSE Head(ss) \o Flatten(Tail(ss))

\* numpy/pandas unique(): the distinct values in order of first appearance
RECURSIVE Unique(_)
Unique(s) ==
    IF s = <<>> THEN <<>>
    ELSE LET u == Unique(SubSeq(s, 1, Len(s) - 1))
             x == s[Len(s)]
         IN IF x \in Range(u) THEN u ELSE Append(u, x)

(***************************************************************************)
(* Fetcher (the MODIS download notebook).                                  *)
(***************************************************************************)
\* os.path.join on the notebook's platform
PathJoin(a, b) == a \o "/" \o b

ncdf_dir == PathJoin("data", "modis")

\* the urls mapping, in insertion order (the order urls.items() iterates in)
urls == <<
    [key |-> "may_2013_sst", value |-> "https://oceandata.sci.gsfc.nasa.gov/cgi/getfile/T20131212013151.L3m_MO_SST_sst_4km.nc"],
    [key |-> "jun_2013_sst", value |-> "https://oceandata.sci.gsfc.nasa.gov/cgi/getfile/T20131522013181.L3m_MO_SST_sst_4km.nc"],
    [key |-> "jul_2013_sst", value |-> "https://oceandata.sci.gsfc.nasa.gov/cgi/getfile/T20131822013212.L3m_MO_SST_sst_4km.nc"],
    [key |-> "aug_2013_sst", value |-> "https://oceandata.sci.gsfc.nasa.gov/cgi/getfile/T20132132013243.L3m_MO_SST_sst_4km.nc"],
    [key |-> "sep_2013_sst", value |-> "https://oceandata.sci.gsfc.nasa.gov/cgi/getfile/T20132442013273.L3m_MO_SST_sst_4km.nc"],
    [key |-> "may_2013_chlor_a", value |-> "https://oceandata.sci.gsfc.nasa.gov/cgi/getfile/T20131212013151.L3m_MO_CHL_chlor_a_4km.nc"],
    [key |-> "jun_2013_chlor_a", value |-> "https://oceandata.sci.gsfc.nasa.gov/cgi/getfile/T20131522013181.L3m_MO_CHL_chlor_a_4km.nc"],
    [key |-> "jul_2013_chlor_a", value |-> "https://oceandata.sci.gsfc.nasa.gov/cgi/getfile/T20131822013212.L3m_MO_CHL_chlor_a_4km.nc"],
    [key |-> "aug_2013_chlor_a", value |-> "https://oceandata.sci.gsfc.nasa.gov/cgi/getfile/T20132132013243.L3m_MO_CHL_chlor_a_4km.nc"],
    [key |-> "sep_2013_chlor_a", value |-> "https://oceandata.sci.gsfc.nasa.gov/cgi/getfile/T20132442013273.L3m_MO_CHL_chlor_a_4km.nc"] >>

\* file_name = os.path.join(ncdf_dir, key + '.nc')
file_name(i) == PathJoin(ncdf_dir, urls[i].key \o ".nc")

FetchPaths == { file_name(i) : i \in 1..Len(urls) }

\* A file of data/modis: absent; stale (left complete by an earlier run);
\* empty (just opened with 'wb'); partial (some bytes copied); complete
\* (copied to the end and closed by this run). src is the index in urls of
\* the resource its bytes come from, 0 when it has none.
Absent      == [state |-> "absent",   src |-> 0]
Stale(i)    == [state |-> "stale",    src |-> i]
Empty       == [state |-> "empty",    src |-> 0]
Partial(i)  == [state |-> "partial",  src |-> i]
Complete(i) == [state |-> "complete", src |-> i]

NoFiles    == [p \in FetchPaths |-> Absent]
StaleFiles == [p \in FetchPaths |-> Stale(CHOOSE i \in 1..Len(urls) : file_name(i) = p)]

\* an exception raised inside the loop body is not caught: it leaves the
\* for loop and ends the run
OnDownloadErrorContinue(i) ==
    IF i < Len(urls) THEN [pc |-> "urlopen", idx |-> i + 1] ELSE [pc |-> "done", idx |-> i + 1]
OnDownloadError(i) == [pc |-> "failed", idx |-> i]

\* the end of one loop body: the next entry of urls.items(), or the end
NextDownload(i) ==
    IF i < Len(urls) THEN [pc |-> "urlopen", idx |-> i + 1] ELSE [pc |-> "done", idx |-> i + 1]

\* if not os.path.exists(ncdf_dir): os.makedirs(ncdf_dir)
MakeDirs ==
    /\ fpc = "makedirs"
    /\ dirExists' = TRUE
    /\ fpc' = IF Len(urls) = 0 THEN "done" ELSE "urlopen"
    /\ fidx' = 1
    /\ UNCHANGED <<disk, nodata, callVars, joinVars>>

\* urllib.request.urlopen(value) returns a response
UrlOpen ==
    /\ fpc = "urlopen"
    /\ fpc' = "open"
    /\ UNCHANGED <<dirExists, disk, fidx, nodata, callVars, joinVars>>

\* urllib.request.urlopen(value) raises: the file is not opened
UrlOpenFails ==
    /\ fpc = "urlopen"
    /\ fpc' = OnDownloadError(fidx).pc
    /\ fidx' = OnDownloadError(fidx).idx
    /\ UNCHANGED <<dirExists, disk, nodata, callVars, joinVars>>

\* open(file_name, 'wb') creates or truncates the file
OpenFile ==
    /\ fpc = "open"
    /\ disk' = [disk EXCEPT ![file_name(fidx)] = Empty]
    /\ fpc' = "copy"
    /\ UNCHANGED <<dirExists, fidx, nodata, callVars, joinVars>>

\* shutil.copyfileobj: one more block read from the response and written
CopyBlock ==
    /\ fpc = "copy"
    /\ disk[file_name(fidx)].state = "empty"
    /\ disk' = [disk EXCEPT ![file_name(fidx)] = Partial(fidx)]
    /\ UNCHANGED <<dirExists, fpc, fidx, nodata, callVars, joinVars>>

\* shutil.copyfileobj: reading the response raises; the with statement
\* closes the file as it is
CopyFails ==
    /\ fpc = "copy"
    /\ fpc' = OnDownloadError(fidx).pc
    /\ fidx' = OnDownloadError(fidx).idx
    /\ UNCHANGED <<dirExists, disk, nodata, callVars, joinVars>>

\* the response is exhausted: the with statement closes both, the loop goes on
CopyEnds ==
    /\ fpc = "copy"
    /\ disk[file_name(fidx)].state = "partial"
    /\ disk' = [disk EXCEPT ![file_name(fidx)] = Complete(fidx)]
    /\ fpc' = NextDownload(fidx).pc
    /\ fidx' = NextDownload(fidx).idx
    /\ UNCHANGED <<dirExists, nodata, callVars, joinVars>>

IdleCall == arg = [fn |-> "none"] /\ ret = [exc |-> "not called"]

IdleJoin ==
    /\ summaries = <<>> /\ listing = <<>> /\ nproc = 1 /\ jpc = "idle"
    /\ full_csv_paths = <<>> /\ chunks = <<>> /\ taken = 0 /\ worker = <<>>
    /\ results = <<>> /\ doneOrder = <<>> /\ firstError = "none"
    /\ out = [columns |-> <<>>, rows |-> <<>>]
    /\ csvOut = [columns |-> <<>>, rows |-> <<>>]
    /\ raised = "none"

FetchInit ==
    /\ nodata = {}
    /\ \/ dirExists = FALSE /\ disk = NoFiles
       \/ dirExists = TRUE /\ disk \in {NoFiles, StaleFiles}
    /\ fpc = "makedirs"
    /\ fidx = 0
    /\ IdleCall
    /\ IdleJoin

FetchNext == MakeDirs \/ UrlOpen \/ UrlOpenFails \/ OpenFile \/ CopyBlock \/ CopyFails \/ CopyEnds

FetchSpec == FetchInit /\ [][FetchNext]_vars

(***************************************************************************)
(* Joiner: values, data frames, rasters.                                   *)
(***************************************************************************)
\* what a call returns, or the exception it raises
Ok(v)    == [exc |-> "none", val |-> v]
Raise(e) == [exc |-> e]

\* a float cell: NaN, or the exact number m * (product of the factors in by)
NaN    == [nan |-> TRUE,  m |-> 0, by |-> <<>>]
Num(v) == [nan |-> FALSE, m |-> v, by |-> <<>>]

\* the no-data value of the rasters, and the temperature scale factor
\* 0.0049999999 = 49999999 * 10^-10
NoDataValue == -32767
ScaleFactor == [num |-> 49999999, exp |-> 10]

\* cell * factor in float arithmetic: NaN stays NaN
Times(c, f) == IF c.nan THEN c ELSE [c EXCEPT !.by = Append(@, f)]

\* the grid of the model's rasters: cells <<lon, lat>>
Lons  == {0, 1}
Cells == { <<lon, 0>> : lon \in Lons }

\* the resource behind urls[i]: its one band, and the value of a grid cell
RemoteBand(i) == IF i <= 5 THEN "sst" ELSE "chlor_a"
RemoteValue(i, cell) == IF cell \in nodata THEN NoDataValue ELSE 100 * i + cell[1]

\* the raster files a run of the Fetcher that got through k downloads leaves
\* in an empty data/modis
FetchedUpTo(k) ==
    [p \in FetchPaths |->
        LET i == CHOOSE j \in 1..Len(urls) : file_name(j) = p
        IN IF i <= k THEN Complete(i) ELSE Absent]

\* a date string: lead spaces followed by the text y-m-d
DateStr(lead, y, m, d) == [lead |-> lead, y |-> y, m |-> m, d |-> d]

\* str.strip()
strip(s) == [s EXCEPT !.lead = 0]

DaysIn(m) == IF m = 2 THEN 28 ELSE IF m \in {4, 6, 9, 11} THEN 30 ELSE 31

\* datetime.datetime.strptime(date_string, '%Y-%m-%d')
strptime(s) ==
    IF s.lead = 0 /\ s.m \in 1..12 /\ s.d \in 1..DaysIn(s.m)
    THEN Ok([year |-> s.y, month |-> s.m, day |-> s.d])
    ELSE Raise("ValueError")

\* str(n) for a natural number
DigitChar(d) ==
    CASE d = 0 -> "0" [] d = 1 -> "1" [] d = 2 -> "2" [] d = 3 -> "3" [] d = 4 -> "4"
      [] d = 5 -> "5" [] d = 6 -> "6" [] d = 7 -> "7" [] d = 8 -> "8" [] d = 9 -> "9"
RECURSIVE str(_)
str(n) == IF n < 10 THEN DigitChar(n) ELSE str(n \div 10) \o DigitChar(n % 10)

\* a data frame: the column names in order, and the rows as functions on them
Frame(columns, rows) == [columns |-> columns, rows |-> rows]

Column(df, c) == [i \in 1..Len(df.rows) |-> df.rows[i][c]]

\* dataframe[newcol] = vals: replaces the column, or appends a new one
SetColumn(df, c, vals) ==
    Frame(IF c \in Range(df.columns) THEN df.columns ELSE Append(df.columns, c),
          [i \in 1..Len(df.rows) |->
              [k \in (DOMAIN df.rows[i]) \cup {c} |->
                  IF k = c THEN vals[i] ELSE df.rows[i][k]]])

\* dataframe.drop(columns=[c], inplace=True), c being a column
DropColumn(df, c) ==
    Frame(SelectSeq(df.columns, LAMBDA k : k # c),
          [i \in 1..Len(df.rows) |->
              [k \in (DOMAIN df.rows[i]) \ {c} |-> df.rows[i][k]]])

(***************************************************************************)
(* Joiner: the helper functions of 03-extract-modis-data.ipynb.            *)
(***************************************************************************)
\* dataframe.Ping_date.unique()[0]: the first distinct date, were there several
FirstUnique(dates) == Unique(dates)[1]
LastUnique(dates)  == Unique(dates)[Len(Unique(dates))]

find_month_last(dataframe) ==
    IF Len(dataframe.rows) = 0 THEN Raise("IndexError")
    ELSE LET date == strptime(strip(LastUnique(Column(dataframe, "Ping_date"))))
         IN IF date.exc # "none" THEN date ELSE Ok(date.val.month)

find_month(dataframe) ==
    IF Len(dataframe.rows) = 0 THEN Raise("IndexError")
    ELSE LET date_string == strip(FirstUnique(Column(dataframe, "Ping_date")))
             date == strptime(date_string)
         IN IF date.exc # "none" THEN date ELSE Ok(date.val.month)

month_dict_no_sep == ("5" :> "may") @@ ("6" :> "jun") @@ ("7" :> "jul") @@ ("8" :> "aug")

month_dict ==
    ("5" :> "may") @@ ("6" :> "jun") @@ ("7" :> "jul") @@ ("8" :> "aug") @@ ("9" :> "sep")

get_raster_path_unchecked(dataframe, var) ==
    LET month == find_month(dataframe)
    IN IF month.exc # "none" THEN month
       ELSE IF str(month.val) \notin DOMAIN month_dict THEN Raise("KeyError")
       ELSE Ok(PathJoin(PathJoin("data", "modis"),
                        month_dict[str(month.val)] \o "_2013_" \o var \o ".nc"))

get_raster_path(dataframe, var) ==
    LET month == find_month(dataframe)
    IN IF month.exc # "none" THEN month
       ELSE IF ~(var = "chlor_a" \/ var = "sst") THEN Raise("AssertionError")
       ELSE IF str(month.val) \notin DOMAIN month_dict THEN Raise("KeyError")
       ELSE LET fname == month_dict[str(month.val)] \o "_2013_" \o var \o ".nc"
            IN Ok(PathJoin(PathJoin("data", "modis"), fname))

\* rasterio.open('NETCDF:' + path + ':' + newcol) succeeds on a whole file
\* that holds the band
CanOpen(path, newcol) ==
    /\ path \in DOMAIN disk
    /\ disk[path].state \in {"complete", "stale"}
    /\ RemoteBand(disk[path].src) = newcol

\* src.sample: the raw value of the grid cell at (x, y)
Sample(path, x, y) == RemoteValue(disk[path].src, <<x, y>>)

\* .astype(np.float32) of a raw sample, followed by
\* vals[vals == -32767.0] = np.nan
MaskNone(v)   == Num(v)
MaskNoData(v) == IF Num(v) = Num(NoDataValue) THEN NaN ELSE Num(v)

extract_raster(dataframe, path, newcol) ==
    IF ~CanOpen(path, newcol) THEN Raise("RasterioIOError")
    ELSE IF Len(dataframe.rows) = 0 THEN Raise("ValueError")
    ELSE LET x == Column(dataframe, "Longitude")
             y == Column(dataframe, "Latitude")
             vals == [i \in 1..Len(dataframe.rows) |-> MaskNoData(Sample(path, x[i], y[i]))]
         IN Ok(SetColumn(dataframe, newcol, vals))

\* the body of the loop over variables, from index i on
RECURSIVE SampleAll(_, _, _)
SampleAll(dataframe, variables, i) ==
    IF i > Len(variables) THEN Ok(dataframe)
    ELSE LET path == get_raster_path(dataframe, variables[i])
         IN IF path.exc # "none" THEN path
            ELSE LET df == extract_raster(dataframe, path.val, variables[i])
                 IN IF df.exc # "none" THEN df
                    ELSE SampleAll(df.val, variables, i + 1)

\* dataframe['sst'] *= 0.0049999999
ScaleTwice(dataframe) ==
    IF "sst" \notin Range(dataframe.columns) THEN Raise("KeyError")
    ELSE Ok(SetColumn(dataframe, "sst",
              [i \in 1..Len(dataframe.rows) |->
                  Times(Times(dataframe.rows[i]["sst"], ScaleFactor), ScaleFactor)]))

ScaleSst(dataframe) ==
    IF "sst" \notin Range(dataframe.columns) THEN Raise("KeyError")
    ELSE Ok(SetColumn(dataframe, "sst",
              [i \in 1..Len(dataframe.rows) |-> Times(dataframe.rows[i]["sst"], ScaleFactor)]))

\* dataframe.drop(columns=['Unnamed: 0'], inplace=True)
DropIndex(dataframe) ==
    IF "Unnamed: 0" \notin Range(dataframe.columns) THEN Raise("KeyError")
    ELSE Ok(DropColumn(dataframe, "Unnamed: 0"))

\* augment_df on the table pd.read_csv(path) returns
augment_df(csv, variables) ==
    LET sampled == SampleAll(csv, variables, 1)
    IN IF sampled.exc # "none" THEN sampled
       ELSE LET scaled == ScaleSst(sampled.val)
            IN IF scaled.exc # "none" THEN scaled
               ELSE DropIndex(scaled.val)

(***************************************************************************)
(* Input tables.                                                           *)
(***************************************************************************)
InputColumns == <<"Unnamed: 0", "Latitude", "Longitude", "Ping_date", "mean">>

\* row i of a CSV file written with its index: a ping at cell <<lon, 0>>
InputRow(i, lon, date) ==
    ("Unnamed: 0" :> i - 1) @@ ("Latitude" :> 0) @@ ("Longitude" :> lon)
        @@ ("Ping_date" :> date) @@ ("mean" :> -60 - i)

TablesOf(lons, dates, n) ==
    { Frame(InputColumns, [i \in 1..n |-> InputRow(i, c[i][1], c[i][2])]) :
        c \in [1..n -> lons \X dates] }

Tables(lons, dates) == UNION { TablesOf(lons, dates, n) : n \in 0..MaxRows }

\* the same table read from a CSV file that was written without its index
WithoutIndex(df) == DropColumn(df, "Unnamed: 0")

\* one date per month of 2013, and a string that is no date
MonthDates == { DateStr(0, 2013, m, 15) : m \in 1..12 } \cup { DateStr(0, 2013, 13, 1) }

\* the dates of the tables augment_df is called on: May (with the leading
\* space of the survey files), June, October, and a string that is no date
SurveyDates ==
    { DateStr(1, 2013, 5, 22), DateStr(0, 2013, 6, 15), DateStr(0, 2013, 10, 1),
      DateStr(0, 2013, 13, 1) }

VarTokens == {"sst", "chlor_a", "SST", "Chlor"}

VarLists == { <<"sst", "chlor_a">>, <<"chlor_a", "sst">>, <<"sst">>, <<"chlor_a">>,
              <<"SST">>, <<>> }

(***************************************************************************)
(* Direct calls of the helper functions on drawn inputs.                   *)
(***************************************************************************)
NotCalled == [exc |-> "not called"]

CallInit ==
    /\ dirExists = TRUE /\ fpc = "idle" /\ fidx = 0
    /\ IdleJoin
    /\ ret = NotCalled
    /\ \/ /\ nodata = {}
          /\ disk = FetchedUpTo(Len(urls))
          /\ \E t \in Tables({0}, MonthDates), v \in VarTokens, f \in {"find_month", "get_raster_path"} :
                arg = [fn |-> f, csv |-> t, variables |-> <<v>>]
       \/ /\ nodata \in SUBSET Cells
          /\ disk \in {FetchedUpTo(Len(urls)), FetchedUpTo(5)}
          /\ \E t \in Tables(Lons, SurveyDates), vs \in VarLists :
                \/ arg = [fn |-> "augment_df", csv |-> t, variables |-> vs]
                \/ arg = [fn |-> "augment_df", csv |-> WithoutIndex(t), variables |-> vs]

CallFindMonth ==
    /\ arg.fn = "find_month" /\ ret = NotCalled
    /\ ret' = find_month(arg.csv)
    /\ UNCHANGED <<nodata, fetchVars, arg, joinVars>>

CallGetRasterPath ==
    /\ arg.fn = "get_raster_path" /\ ret = NotCalled
    /\ ret' = get_raster_path(arg.csv, arg.variables[1])
    /\ UNCHANGED <<nodata, fetchVars, arg, joinVars>>

CallAugment ==
    /\ arg.fn = "augment_df" /\ ret = NotCalled
    /\ ret' = augment_df(arg.csv, arg.variables)
    /\ UNCHANGED <<nodata, fetchVars, arg, joinVars>>

CallNext == CallFindMonth \/ CallGetRasterPath \/ CallAugment

CallSpec == CallInit /\ [][CallNext]_vars

(***************************************************************************)
(* Properties of the helper functions (checked under CallSpec).            *)
(***************************************************************************)
Returned(f) == arg.fn = f /\ ret.exc = "none"
Called(f)   == arg.fn = f /\ ret.exc # "not called"

\* the month abbreviations as the specification lists them
Abbr(m) == CASE m = 5 -> "may" [] m = 6 -> "jun" [] m = 7 -> "jul" [] m = 8 -> "aug"
             [] m = 9 -> "sep"

IsDate(s) == s.m \in 1..12 /\ s.d \in 1..DaysIn(s.m)

\* the month written in the first row of a table
FirstRowMonth(df) == df.rows[1]["Ping_date"].m

\* the value the raster of month m and band v holds at the ping of a row
RawAt(m, v, row) ==
    LET i == CHOOSE j \in 1..Len(urls) : urls[j].key = Abbr(m) \o "_2013_" \o v
    IN RemoteValue(i, <<row["Longitude"], row["Latitude"]>>)

C2_NoDataTranslation ==
    Returned("augment_df") =>
        \A i \in 1..Len(ret.val.rows) : \A c \in {"sst", "chlor_a"} \cap Range(ret.val.columns) :
            LET raw  == RawAt(FirstRowMonth(arg.csv), c, arg.csv.rows[i])
                cell == ret.val.rows[i][c]
            IN /\ raw = -32767 => cell.nan
               /\ ~cell.nan => cell.m # -32767
               /\ raw # -32767 => ~cell.nan /\ cell.m = raw
               /\ (raw # -32767 /\ c = "chlor_a") => cell = Num(raw)

C2_Witness ==
    /\ Returned("augment_df")
    /\ arg.variables = <<"sst", "chlor_a">>
    /\ \E i, j \in 1..Len(ret.val.rows) :
          /\ ret.val.rows[i]["sst"].nan /\ ret.val.rows[i]["chlor_a"].nan
          /\ ~ret.val.rows[j]["sst"].nan /\ ~ret.val.rows[j]["chlor_a"].nan

\* a table augment_df can process: it has rows, its month has rasters, and
\* the rasters are on disk
Processable(df) ==
    /\ Len(df.rows) > 0
    /\ IsDate(df.rows[1]["Ping_date"])
    /\ FirstRowMonth(df) \in 5..9
    /\ disk = FetchedUpTo(Len(urls))

\* C3: for every table with the column 'Unnamed: 0' and every variables list
\* made of sst and/or chlor_a, augment_df returns the original columns
\* unchanged, without 'Unnamed: 0', plus one new column per requested
\* variable.
C3_AugmentedColumns ==
    ( /\ Called("augment_df")
      /\ "Unnamed: 0" \in Range(arg.csv.columns)
      /\ Processable(arg.csv)
      /\ arg.variables \in {<<"sst">>, <<"chlor_a">>, <<"sst", "chlor_a">>, <<"chlor_a", "sst">>} )
    => /\ ret.exc = "none"
       /\ ret.val.columns = SelectSeq(arg.csv.columns, LAMBDA k : k # "Unnamed: 0") \o arg.variables
       /\ Len(ret.val.rows) = Len(arg.csv.rows)
       /\ \A i \in 1..Len(arg.csv.rows) : \A k \in Range(arg.csv.columns) \ {"Unnamed: 0"} :
              ret.val.rows[i][k] = arg.csv.rows[i][k]

\* C7: in every augment_df call that completes, each sst cell is the raw
\* sample times 0.0049999999, once, or NaN where the raw sample is the
\* no-data value; the chlor_a cells carry no factor.
C7_UnitCorrection ==
    Returned("augment_df") =>
        /\ "sst" \in Range(ret.val.columns)
        /\ \A i \in 1..Len(ret.val.rows) :
              LET raw == RawAt(FirstRowMonth(arg.csv), "sst", arg.csv.rows[i])
              IN ret.val.rows[i]["sst"] =
                    IF raw = -32767 THEN NaN
                    ELSE [nan |-> FALSE, m |-> raw, by |-> << [num |-> 49999999, exp |-> 10] >>]
        /\ "chlor_a" \in Range(ret.val.columns) =>
              \A i \in 1..Len(ret.val.rows) : ret.val.rows[i]["chlor_a"].by = <<>>

C7_Witness ==
    /\ Returned("augment_df")
    /\ arg.variables = <<"chlor_a", "sst">>
    /\ \E i, j \in 1..Len(ret.val.rows) :
          /\ ret.val.rows[i]["sst"] = NaN
          /\ ret.val.rows[j]["sst"].by = <<ScaleFactor>>
          /\ ~ret.val.rows[j]["chlor_a"].nan

\* the table holds more than one distinct date, all of them dates
MultiDate(df) ==
    /\ Cardinality({ df.rows[i]["Ping_date"] : i \in 1..Len(df.rows) }) > 1
    /\ \A i \in 1..Len(df.rows) : IsDate(df.rows[i]["Ping_date"])

\* C8: on a table with more than one distinct date find_month raises nothing
\* and returns the month of the first date in the table; augment_df then
\* samples every row, whatever its own date, from the rasters of that month.
C8_FirstDateOnly ==
    /\ (Called("find_month") /\ MultiDate(arg.csv)) => ret = Ok(FirstRowMonth(arg.csv))
    /\ (Returned("augment_df") /\ MultiDate(arg.csv)) =>
          \A i \in 1..Len(ret.val.rows) : \A c \in {"sst", "chlor_a"} \cap Range(ret.val.columns) :
              LET raw == RawAt(FirstRowMonth(arg.csv), c, arg.csv.rows[i])
              IN IF raw = -32767 THEN ret.val.rows[i][c].nan
                 ELSE ~ret.val.rows[i][c].nan /\ ret.val.rows[i][c].m = raw

C8_Witness ==
    /\ Returned("augment_df")
    /\ arg.variables = <<"sst", "chlor_a">>
    /\ \E i \in 2..Len(arg.csv.rows) :
          /\ arg.csv.rows[i]["Ping_date"].m # FirstRowMonth(arg.csv)
          /\ ~ret.val.rows[i]["sst"].nan
          /\ ~ret.val.rows[i]["chlor_a"].nan

(***************************************************************************)
(* Joiner: the cells that list the input files, map augment_df over them   *)
(* in a pool, concatenate and write the result.                            *)
(***************************************************************************)
\* file names are strings of code points: "1.csv", "10.csv", "2.csv"
FileNames == { <<49, 46, 99, 115, 118>>, <<49, 48, 46, 99, 115, 118>>, <<50, 46, 99, 115, 118>> }

\* a < b for Python strings: by the first code point that differs, a proper
\* prefix first
RECURSIVE LexLess(_, _)
LexLess(a, b) ==
    IF b = <<>> THEN FALSE
    ELSE IF a = <<>> THEN TRUE
    ELSE IF Head(a) # Head(b) THEN Head(a) < Head(b)
    ELSE LexLess(Tail(a), Tail(b))

\* csv_files.sort()
Sorted(names) == SortSeq(names, LexLess)

\* os.path.join('data', 'summaries', f)
CsvPath(f) == [dir |-> PathJoin("data", "summaries"), name |-> f]

\* pd.read_csv(path)
read_csv(path) == summaries[path.name]

\* the default of augment_df's second parameter
DefaultVariables == <<"sst", "chlor_a">>

\* a name bound to nothing yet, and None in a list of results
NoFrame == Frame(<<>>, <<>>)
None    == [exc |-> "not called"]

\* Pool.map's chunksize for n tasks and a pool of p processes
ChunkSize(n, p) ==
    LET q == n \div (p * 4)
        r == n % (p * 4)
    IN IF r > 0 THEN q + 1 ELSE q

\* the task batches: consecutive runs of at most size indexes
RECURSIVE Batches(_, _, _)
Batches(from, n, size) ==
    IF from > n THEN <<>>
    ELSE LET to == IF from + size - 1 < n THEN from + size - 1 ELSE n
         IN <<[i \in 1..(to - from + 1) |-> from + i - 1]>> \o Batches(to + 1, n, size)

\* mapstar on one batch: the results of augment_df in order, or the first
\* exception one of the calls raises
RECURSIVE RunBatch(_, _)
RunBatch(batch, k) ==
    IF k > Len(batch) THEN Ok(<<>>)
    ELSE LET r == augment_df(read_csv(full_csv_paths[batch[k]]), DefaultVariables)
         IN IF r.exc # "none" THEN r
            ELSE LET rest == RunBatch(batch, k + 1)
                 IN IF rest.exc # "none" THEN rest ELSE Ok(<<r>> \o rest.val)

\* pd.concat(objs): None entries are dropped, nothing left is an error; the
\* frames' rows follow one another in the order of objs
ConcatButLast(objs) ==
    LET kept == SelectSeq(SubSeq(objs, 1, Len(objs) - 1), LAMBDA r : r.exc = "none")
    IN IF Len(kept) = 0 THEN Raise("ValueError")
       ELSE Ok(Frame(kept[1].val.columns, Flatten([i \in 1..Len(kept) |-> kept[i].val.rows])))

Concat(objs) ==
    LET kept == SelectSeq(objs, LAMBDA r : r.exc = "none")
    IN IF Len(kept) = 0 THEN Raise("ValueError")
       ELSE Ok(Frame(kept[1].val.columns, Flatten([i \in 1..Len(kept) |-> kept[i].val.rows])))

\* MapResult is ready once every batch has reported
MapReadyOnFirst == Len(doneOrder) >= 1 \/ Len(chunks) = 0
MapReady == Len(doneOrder) = Len(chunks)

\* MapResult.get(): re-raises the stored exception
MapError == firstError

\* the list pool.map returns: the results in the order of the iterable
MapValueAsCompleted ==
    LET order == Flatten([k \in 1..Len(doneOrder) |-> chunks[doneOrder[k]]])
    IN [k \in 1..Len(order) |-> results[order[k]]]
MapValue == results

PoolTables ==
    { Frame(InputColumns, <<InputRow(1, 0, DateStr(1, 2013, 5, 22)), InputRow(2, 1, DateStr(1, 2013, 5, 22))>>),
      Frame(InputColumns, <<InputRow(1, 1, DateStr(0, 2013, 6, 15))>>),
      Frame(InputColumns, <<InputRow(1, 0, DateStr(0, 2013, 10, 1))>>) }

Perms(S) == { f \in [1..Cardinality(S) -> S] : \A x \in S : \E i \in 1..Cardinality(S) : f[i] = x }

JoinInit ==
    /\ dirExists = TRUE /\ fpc = "idle" /\ fidx = 0
    /\ disk = FetchedUpTo(Len(urls))
    /\ nodata \in {{}, {<<1, 0>>}}
    /\ IdleCall
    /\ \E names \in SUBSET FileNames :
          /\ Cardinality(names) <= MaxFiles
          /\ summaries \in [names -> PoolTables]
          /\ listing \in Perms(names)
    /\ nproc \in 1..MaxProcs
    /\ jpc = "listdir"
    /\ full_csv_paths = <<>> /\ chunks = <<>> /\ taken = 0 /\ worker = <<>>
    /\ results = <<>> /\ doneOrder = <<>> /\ firstError = "none"
    /\ out = NoFrame /\ csvOut = NoFrame /\ raised = "none"

\* csv_files = os.listdir(...); csv_files.sort(); full_csv_paths = [...]
ListFiles ==
    /\ jpc = "listdir"
    /\ full_csv_paths' = [i \in 1..Len(listing) |-> CsvPath(Sorted(listing)[i])]
    /\ jpc' = "pool"
    /\ UNCHANGED <<nodata, fetchVars, callVars, summaries, listing, nproc, chunks, taken,
                   worker, results, doneOrder, firstError, out, csvOut, raised>>

\* multiprocessing.Pool() and the call of pool.map: the batches are queued
PoolMapCalled ==
    /\ jpc = "pool"
    /\ chunks' = IF Len(full_csv_paths) = 0 THEN <<>>
                 ELSE Batches(1, Len(full_csv_paths), ChunkSize(Len(full_csv_paths), nproc))
    /\ taken' = 0
    /\ worker' = [w \in 1..nproc |-> 0]
    /\ results' = [i \in 1..Len(full_csv_paths) |-> None]
    /\ doneOrder' = <<>>
    /\ firstError' = "none"
    /\ jpc' = "wait"
    /\ UNCHANGED <<nodata, fetchVars, callVars, summaries, listing, nproc, full_csv_paths,
                   out, csvOut, raised>>

\* an idle worker takes the next batch off the task queue
WorkerTakes(w) ==
    /\ jpc = "wait"
    /\ worker[w] = 0
    /\ taken < Len(chunks)
    /\ taken' = taken + 1
    /\ worker' = [worker EXCEPT ![w] = taken + 1]
    /\ UNCHANGED <<nodata, fetchVars, callVars, summaries, listing, nproc, jpc,
                   full_csv_paths, chunks, results, doneOrder, firstError, out, csvOut, raised>>

\* a worker finishes its batch and MapResult._set stores what it reports
WorkerReports(w) ==
    /\ jpc = "wait"
    /\ worker[w] # 0
    /\ LET c == worker[w]
           r == RunBatch(chunks[c], 1)
       IN /\ IF r.exc = "none" /\ firstError = "none"
             THEN /\ results' = [i \in 1..Len(results) |->
                                   IF \E k \in 1..Len(chunks[c]) : chunks[c][k] = i
                                   THEN r.val[CHOOSE k \in 1..Len(chunks[c]) : chunks[c][k] = i]
                                   ELSE results[i]]
                  /\ UNCHANGED firstError
             ELSE /\ firstError' = IF r.exc # "none" /\ firstError = "none" THEN r.exc ELSE firstError
                  /\ UNCHANGED results
          /\ doneOrder' = Append(doneOrder, c)
    /\ worker' = [worker EXCEPT ![w] = 0]
    /\ UNCHANGED <<nodata, fetchVars, callVars, summaries, listing, nproc, jpc,
                   full_csv_paths, chunks, taken, out, csvOut, raised>>

\* pool.map returns or raises; out = pd.concat(list(...))
PoolMapReturns ==
    /\ jpc = "wait"
    /\ MapReady
    /\ IF MapError # "none"
       THEN /\ raised' = MapError
            /\ jpc' = "failed"
            /\ UNCHANGED out
       ELSE LET c == Concat(MapValue)
            IN IF c.exc # "none"
               THEN /\ raised' = c.exc
                    /\ jpc' = "failed"
                    /\ UNCHANGED out
               ELSE /\ out' = c.val
                    /\ jpc' = "to_csv"
                    /\ UNCHANGED raised
    /\ UNCHANGED <<nodata, fetchVars, callVars, summaries, listing, nproc,
                   full_csv_paths, chunks, taken, worker, results, doneOrder, firstError, csvOut>>

\* out.to_csv(os.path.join('data', 'sonar-with-modis.csv'))
ToCsv ==
    /\ jpc = "to_csv"
    /\ csvOut' = out
    /\ jpc' = "done"
    /\ UNCHANGED <<nodata, fetchVars, callVars, summaries, listing, nproc,
                   full_csv_paths, chunks, taken, worker, results, doneOrder, firstError,
                   out, raised>>

JoinNext ==
    \/ ListFiles
    \/ PoolMapCalled
    \/ \E w \in 1..nproc : WorkerTakes(w)
    \/ \E w \in 1..nproc : WorkerReports(w)
    \/ PoolMapReturns
    \/ ToCsv

JoinSpec == JoinInit /\ [][JoinNext]_vars

(***************************************************************************)
(* Properties of the Joiner run (checked under JoinSpec).                  *)
(***************************************************************************)
SurveyColumns == <<"Latitude", "Longitude", "Ping_date", "mean">>

\* the survey columns of a row
Survey(row) == [k \in Range(SurveyColumns) |-> row[k]]

SurveyRows(df) == [i \in 1..Len(df.rows) |-> Survey(df.rows[i])]

RECURSIVE SumLen(_)
SumLen(tables) == IF tables = <<>> THEN 0 ELSE Len(Head(tables).rows) + SumLen(Tail(tables))

\* the input files in some order, as a sequence of their tables
InOrder(names) == [i \in 1..Len(names) |-> summaries[names[i]]]

\* the names of data/summaries in ascending order
Ascending ==
    CHOOSE names \in Perms(DOMAIN summaries) :
        \A i, j \in 1..Len(names) : i < j => LexLess(names[i], names[j])

\* C4: when the run completes, the output holds as many rows as all input
\* files together, and it is the input files' rows laid end to end: every
\* file's rows in the order they have in the file.
C4_Aggregation ==
    jpc = "done" =>
        /\ Len(csvOut.rows) = SumLen(InOrder(listing))
        /\ \E names \in Perms(DOMAIN summaries) :
              SurveyRows(csvOut) = Flatten([i \in 1..Len(names) |-> SurveyRows(summaries[names[i]])])

C4_Witness ==
    /\ jpc = "done"
    /\ Cardinality(DOMAIN summaries) = 2
    /\ Len(csvOut.rows) = 3

\* some call of augment_df on an input file raises
SomeWorkerFails ==
    \E f \in DOMAIN summaries : augment_df(summaries[f], DefaultVariables).exc # "none"

\* every batch has been run to its end and reported, no worker is busy
AllWorkersCompleted ==
    /\ jpc \notin {"listdir", "pool"}
    /\ Len(doneOrder) = Len(chunks)
    /\ Flatten(chunks) = [i \in 1..Len(full_csv_paths) |-> i]
    /\ \A w \in DOMAIN worker : worker[w] = 0

\* C5: the concatenation and the write of the output happen only after every
\* worker has completed; if a worker fails, the run ends with that failure
\* and neither concatenates nor writes anything.
C5_BarrierAndFailure ==
    /\ (out # NoFrame \/ csvOut # NoFrame \/ jpc \in {"to_csv", "done"})
          => AllWorkersCompleted
    /\ SomeWorkerFails =>
          /\ out = NoFrame /\ csvOut = NoFrame
          /\ jpc \notin {"to_csv", "done"}
          /\ AllWorkersCompleted => (jpc = "wait" \/ (jpc = "failed" /\ raised \in {"KeyError", "IndexError", "ValueError", "RasterioIOError"}))
    /\ jpc = "failed" => raised # "none" /\ out = NoFrame /\ csvOut = NoFrame

C5_Witness ==
    /\ jpc = "failed"
    /\ raised = "KeyError"
    /\ \E i \in 1..Len(results) : results[i].exc = "none"

\* C10: whatever order the workers start and finish in, the output is the
\* augmented tables in ascending order of the input file names, so it is a
\* function of the input files and rasters alone.
C10_DeterministicOrder ==
    jpc = "done" =>
        csvOut.rows = Flatten([i \in 1..Len(Ascending) |->
                          augment_df(summaries[Ascending[i]], DefaultVariables).val.rows])

C10_Witness ==
    /\ jpc = "done"
    /\ Len(listing) = 2
    /\ LexLess(listing[2], listing[1])
    /\ doneOrder = <<2, 1>>
    /\ summaries[listing[1]] # summaries[listing[2]]

(***************************************************************************)
(* Properties of the Fetcher (checked under FetchSpec).                    *)
(***************************************************************************)
\* the file of entry i has not been touched by this run
Untouched(i) == disk[file_name(i)].state \in {"absent", "stale"}

\* C6: the downloads run one after another in the order of urls: while entry
\* k is being downloaded, and after it has failed, the files of all earlier
\* entries are completely written and no later entry's file has been
\* touched; after a failure nothing more is downloaded.
C6_SequentialAbort ==
    /\ fpc \in {"urlopen", "open", "copy", "failed"} =>
          /\ fidx \in 1..Len(urls)
          /\ \A j \in 1..Len(urls) :
                /\ j < fidx => disk[file_name(j)] = Complete(j)
                /\ j > fidx => Untouched(j)
    /\ fpc = "done" => \A j \in 1..Len(urls) : disk[file_name(j)] = Complete(j)
    /\ fpc = "makedirs" => \A j \in 1..Len(urls) : Untouched(j)

C6_Witness ==
    /\ fpc = "failed"
    /\ fidx = 4
    /\ disk[file_name(4)].state = "partial"
    /\ disk[file_name(3)] = Complete(3)
    /\ disk[file_name(5)].state = "stale"

\* the paths get_raster_path can return: one per supported month and variable
ResolvablePaths ==
    { get_raster_path(t, v).val :
        <<t, v>> \in { <<t, v>> \in TablesOf({0}, MonthDates, 1) \X VarTokens :
                          get_raster_path(t, v).exc = "none" } }

\* the files this run of the Fetcher has written to the end
Downloaded == { p \in DOMAIN disk : disk[p].state = "complete" }

\* C9: the paths the Joiner can resolve are exactly the files a complete run
\* of the Fetcher writes, each holding the band of its name.
C9_NamingAgreement ==
    fpc = "done" =>
        /\ Downloaded = ResolvablePaths
        /\ Cardinality(Downloaded) = 10
        /\ \A m \in 5..9 : \A v \in {"sst", "chlor_a"} :
              LET p == "data/modis/" \o Abbr(m) \o "_2013_" \o v \o ".nc"
              IN p \in Downloaded /\ RemoteBand(disk[p].src) = v

C9_Witness ==
    /\ fpc = "done"
    /\ "data/modis/sep_2013_chlor_a.nc" \in Downloaded \cap ResolvablePaths

====
